---- MODULE Spec2Model ----
(***************************************************************************)
(* CSV -> PostgreSQL bulk loader with ETL run logging (src/main.py) and    *)
(* the F101 CSV export/import companion (src/load_download.py).            *)
(*                                                                         *)
(* Texts are sequences of one-character strings, so that strip, slicing,   *)
(* lower-casing and date parsing are computed as the code computes them.   *)
(* A cell of a DataFrame is a record [t, s]: t is the kind of the value    *)
(* ("str" a Python str, "num" a numeric scalar, "nan" the float NaN,       *)
(* "none" Python None) and s its text (what str() prints for it).          *)
(***************************************************************************)
EXTENDS Integers, Sequences, FiniteSets, TLC

VARIABLES pc, conn, files, idx, total, run_id, attempted, exc, finishCalls,
          res, res1, table, file, cmd, body

vars == <<pc, conn, files, idx, total, run_id, attempted, exc, finishCalls,
          res, res1, table, file, cmd, body>>

(***************************************************************************)
(* Bounds of the model.                                                    *)
(***************************************************************************)
MaxRows == 3

MaxPriorRuns == 1

MaxF101Rows == 2

(***************************************************************************)
(* Values and texts.                                                       *)
(***************************************************************************)
NaN == [t |-> "nan", s |-> <<>>]

None == [t |-> "none", s |-> <<>>]

Str(s) == [t |-> "str", s |-> s]

Num(s) == [t |-> "num", s |-> s]

\* str(x) of a cell
PyStr(v) ==
    CASE v.t = "nan" -> <<"n", "a", "n">>
      [] v.t = "none" -> <<"N", "o", "n", "e">>
      [] OTHER -> v.s

\* pd.notnull(x)
NotNull(v) == v.t \notin {"nan", "none"}

UpperCase == <<"A", "B", "C", "D", "E", "F", "G", "H", "I", "J", "K", "L", "M",
               "N", "O", "P", "Q", "R", "S", "T", "U", "V", "W", "X", "Y", "Z">>

LowerCase == <<"a", "b", "c", "d", "e", "f", "g", "h", "i", "j", "k", "l", "m",
               "n", "o", "p", "q", "r", "s", "t", "u", "v", "w", "x", "y", "z">>

LowerChar(c) ==
    IF \E i \in 1..Len(UpperCase) : UpperCase[i] = c
    THEN LowerCase[CHOOSE i \in 1..Len(UpperCase) : UpperCase[i] = c]
    ELSE c

\* str.lower()
Lower(s) == [i \in 1..Len(s) |-> LowerChar(s[i])]

IsSpace(c) == c \in {" ", "\t"}

RECURSIVE LStrip(_)
LStrip(s) == IF s # <<>> /\ IsSpace(Head(s)) THEN LStrip(Tail(s)) ELSE s

RECURSIVE RStrip(_)
RStrip(s) ==
    IF s # <<>> /\ IsSpace(s[Len(s)]) THEN RStrip(SubSeq(s, 1, Len(s) - 1)) ELSE s

\* str.strip()
Strip(s) == RStrip(LStrip(s))

\* s[:n]
Take(s, n) == SubSeq(s, 1, IF Len(s) < n THEN Len(s) ELSE n)

Digits == <<"0", "1", "2", "3", "4", "5", "6", "7", "8", "9">>

IsDigit(c) == \E i \in 1..Len(Digits) : Digits[i] = c

DigitVal(c) == (CHOOSE i \in 1..Len(Digits) : Digits[i] = c) - 1

DigitChar(n) == Digits[n + 1]

RECURSIVE IntOf(_)
IntOf(s) == IF s = <<>> THEN 0 ELSE 10 * IntOf(SubSeq(s, 1, Len(s) - 1)) + DigitVal(s[Len(s)])

\* the parts of s between occurrences of sep
RECURSIVE Split(_, _)
Split(s, sep) ==
    IF \E i \in 1..Len(s) : s[i] = sep
    THEN LET i == CHOOSE i \in 1..Len(s) : s[i] = sep /\ \A j \in 1..(i - 1) : s[j] # sep
         IN <<SubSeq(s, 1, i - 1)>> \o Split(SubSeq(s, i + 1, Len(s)), sep)
    ELSE <<s>>

(***************************************************************************)
(* datetime.strptime(value, "%d<sep>%m<sep>%Y").strftime("%Y-%m-%d")       *)
(***************************************************************************)
\* %d: 3[0-1] | [1-2]\d | 0[1-9] | [1-9] | " "[1-9]
DayField(p) ==
    \/ Len(p) = 1 /\ IsDigit(p[1]) /\ p[1] # "0"
    \/ Len(p) = 2 /\ p[1] = "3" /\ p[2] \in {"0", "1"}
    \/ Len(p) = 2 /\ p[1] \in {"1", "2"} /\ IsDigit(p[2])
    \/ Len(p) = 2 /\ p[1] \in {"0", " "} /\ IsDigit(p[2]) /\ p[2] # "0"

\* %m: 1[0-2] | 0[1-9] | [1-9]
MonthField(p) ==
    \/ Len(p) = 1 /\ IsDigit(p[1]) /\ p[1] # "0"
    \/ Len(p) = 2 /\ p[1] = "1" /\ p[2] \in {"0", "1", "2"}
    \/ Len(p) = 2 /\ p[1] = "0" /\ IsDigit(p[2]) /\ p[2] # "0"

\* %Y: \d\d\d\d
YearField(p) == Len(p) = 4 /\ \A i \in 1..4 : IsDigit(p[i])

IsLeap(y) == (y % 4 = 0 /\ y % 100 # 0) \/ y % 400 = 0

DaysInMonth(m, y) ==
    CASE m \in {4, 6, 9, 11} -> 30
      [] m = 2 -> IF IsLeap(y) THEN 29 ELSE 28
      [] OTHER -> 31

Pad2(n) == <<DigitChar(n \div 10), DigitChar(n % 10)>>

Pad4(n) == <<DigitChar(n \div 1000), DigitChar((n \div 100) % 10),
             DigitChar((n \div 10) % 10), DigitChar(n % 10)>>

\* [ok, text]: ok is FALSE where strptime raises ValueError
Strptime(value, sep) ==
    LET parts == Split(value, sep)
        wellFormed == /\ Len(parts) = 3
                      /\ DayField(parts[1])
                      /\ MonthField(parts[2])
                      /\ YearField(parts[3])
        d == IntOf(LStrip(parts[1]))
        m == IntOf(parts[2])
        y == IntOf(parts[3])
    IN IF wellFormed /\ y >= 1 /\ d <= DaysInMonth(m, y)
       THEN [ok |-> TRUE, text |-> Pad4(y) \o <<"-">> \o Pad2(m) \o <<"-">> \o Pad2(d)]
       ELSE [ok |-> FALSE, text |-> <<>>]

\* convert_date(value, fmt): value is a text, the result a cell
convert_date(value, fmt) ==
    IF value = <<>> \/ Lower(value) \in {<<"n", "a", "n">>, <<"n", "o", "n", "e">>}
    THEN None
    ELSE CASE fmt = "DD.MM.YYYY" ->
                  IF Strptime(value, ".").ok THEN Str(Strptime(value, ".").text) ELSE None
           [] fmt = "DD-MM-YYYY" ->
                  IF Strptime(value, "-").ok THEN Str(Strptime(value, "-").text) ELSE None
           [] fmt = "YYYY-MM-DD" -> Str(value)
           [] OTHER -> None

\* pythonify(v)
pythonify(v) == IF v.t \in {"none", "nan"} THEN None ELSE v

(***************************************************************************)
(* Configuration of the loader.                                            *)
(***************************************************************************)
\* csv_files, in its iteration order
csv_files == <<"ft_balance_f", "ft_posting_f", "md_account_d", "md_currency_d",
               "md_exchange_rate_d", "md_ledger_account_s">>

TableNames == {csv_files[i] : i \in 1..Len(csv_files)}

\* the column list of insert_queries[t], as import_table parses it out of the SQL
cols_order(t) ==
    CASE t = "ft_balance_f" -> <<"on_date", "account_rk", "currency_rk", "balance_out">>
      [] t = "ft_posting_f" -> <<"oper_date", "credit_account_rk", "debet_account_rk",
                                 "credit_amount", "debet_amount">>
      [] t = "md_account_d" -> <<"data_actual_date", "data_actual_end_date", "account_rk",
                                 "account_number", "char_type", "currency_rk", "currency_code">>
      [] t = "md_currency_d" -> <<"currency_rk", "data_actual_date", "data_actual_end_date",
                                  "currency_code", "code_iso_char">>
      [] t = "md_exchange_rate_d" -> <<"data_actual_date", "data_actual_end_date", "currency_rk",
                                       "reduced_cource", "code_iso_num">>
      [] t = "md_ledger_account_s" -> <<"chapter", "chapter_name", "section_number",
                                        "section_name", "subsection_name", "ledger1_account",
                                        "ledger1_account_name", "ledger_account",
                                        "ledger_account_name", "characteristic",
                                        "start_date", "end_date">>

\* the ON CONFLICT target of insert_queries[t]; ft_posting_f has none
conflict_target(t) ==
    CASE t = "ft_balance_f" -> <<"on_date", "account_rk">>
      [] t = "ft_posting_f" -> <<>>
      [] t = "md_account_d" -> <<"data_actual_date", "account_rk">>
      [] t = "md_currency_d" -> <<"currency_rk", "data_actual_date">>
      [] t = "md_exchange_rate_d" -> <<"data_actual_date", "currency_rk">>
      [] t = "md_ledger_account_s" -> <<"ledger_account", "start_date">>

\* date_columns.get(t), as a sequence of (column, format)
date_columns(t) ==
    CASE t = "ft_balance_f" -> <<[col |-> "on_date", fmt |-> "DD.MM.YYYY"]>>
      [] t = "ft_posting_f" -> <<[col |-> "oper_date", fmt |-> "DD-MM-YYYY"]>>
      [] OTHER -> <<>>

\* varchar_limits.get(t), as a sequence of (column, limit)
varchar_limits(t) ==
    CASE t = "md_currency_d" -> <<[col |-> "currency_code", lim |-> 3],
                                  [col |-> "code_iso_char", lim |-> 3]>>
      [] OTHER -> <<>>

\* snake_case(s) = s.strip().replace(" ", "_").replace("-", "_").lower(),
\* on the raw headers that occur in the files of the model
snake_case(h) ==
    CASE h = "On_Date" -> "on_date"
      [] h = " Account RK" -> "account_rk"
      [] h = " Currency-RK" -> "currency_rk"
      [] h = " Balance_Out " -> "balance_out"
      [] OTHER -> h

Range(s) == {s[i] : i \in 1..Len(s)}

\* date_columns[table].keys()
DateCols(t) == {date_columns(t)[i].col : i \in 1..Len(date_columns(t))}

\* varchar_limits[table].keys()
LimitCols(t) == {varchar_limits(t)[i].col : i \in 1..Len(varchar_limits(t))}

(***************************************************************************)
(* DataFrames: the column labels and the rows, each row with its index     *)
(* label (pandas keeps the label of a row through filtering).              *)
(***************************************************************************)
\* pd.read_csv(path, delimiter=";") followed by the renaming of the columns
ReadCsv(f) ==
    [columns |-> [i \in 1..Len(f.header) |-> snake_case(f.header[i])],
     rows |-> [i \in 1..Len(f.rows) |-> [idx |-> i - 1, vals |-> f.rows[i]]]]

ColIndex(df, col) == CHOOSE i \in 1..Len(df.columns) : df.columns[i] = col

\* a row with the cell of column number c replaced
WithCell(row, c, v) == [row EXCEPT !.vals[c] = v]

\* (keep="first": one copy of each duplicated row stays)
DropDuplicates_keepFirst(df) ==
    [df EXCEPT !.rows = SelectSeq(df.rows, LAMBDA r :
        ~\E j \in 1..Len(df.rows) : df.rows[j].vals = r.vals /\ df.rows[j].idx < r.idx)]

\* df[~df.duplicated(keep=False)]
DropDuplicates(df) ==
    [df EXCEPT !.rows = SelectSeq(df.rows, LAMBDA r :
        Cardinality({j \in 1..Len(df.rows) : df.rows[j].vals = r.vals}) = 1)]

\* the loop over date_columns[table]: each declared column the frame has is converted
RECURSIVE CoerceDates(_, _)
CoerceDates(df, dcs) ==
    IF dcs = <<>> THEN df
    ELSE LET dc == Head(dcs)
             next == IF dc.col \in Range(df.columns)
                     THEN [df EXCEPT !.rows = [i \in 1..Len(df.rows) |->
                              WithCell(df.rows[i], ColIndex(df, dc.col),
                                  convert_date(PyStr(df.rows[i].vals[ColIndex(df, dc.col)]),
                                               dc.fmt))]]
                     ELSE df
         IN CoerceDates(next, Tail(dcs))

\* (no dropna)
DropNa_keepAll(df, cols) == df

\* df.dropna(subset=cols), for cols that the frame has
DropNa(df, cols) ==
    [df EXCEPT !.rows = SelectSeq(df.rows, LAMBDA r :
        \A c \in cols : NotNull(r.vals[ColIndex(df, c)]))]

\* (the slice before the strip)
Varchar_cutThenStrip(v, lim) ==
    LET s == Strip(Take(PyStr(v), lim))
    IN IF s = <<>> THEN None ELSE Str(s)

\* astype(str).str.strip().str[:lim].replace({"": None}) on one cell
Varchar(v, lim) ==
    LET s == Take(Strip(PyStr(v)), lim)
    IN IF s = <<>> THEN None ELSE Str(s)

\* the loop over varchar_limits[table]
RECURSIVE EnforceLimits(_, _)
EnforceLimits(df, vls) ==
    IF vls = <<>> THEN df
    ELSE LET vl == Head(vls)
             next == IF vl.col \in Range(df.columns)
                     THEN [df EXCEPT !.rows = [i \in 1..Len(df.rows) |->
                              WithCell(df.rows[i], ColIndex(df, vl.col),
                                  Varchar(df.rows[i].vals[ColIndex(df, vl.col)], vl.lim))]]
                     ELSE df
         IN EnforceLimits(next, Tail(vls))

\* the end of prepare_dataframe, from the frame with its dates converted: dropna
\* raises KeyError for a declared date column the frame lacks; then the limits
SanitizeDated(t, dedup, dated) ==
    IF DateCols(t) \ Range(dated.columns) # {}
    THEN [raised |-> TRUE, err |-> "KeyError", dedup |-> dedup, df |-> dated]
    ELSE [raised |-> FALSE, err |-> "", dedup |-> dedup,
          df |-> EnforceLimits(DropNa(dated, DateCols(t)), varchar_limits(t))]

\* prepare_dataframe from the frame without its duplicates
Sanitize(t, dedup) == SanitizeDated(t, dedup, CoerceDates(dedup, date_columns(t)))

\* prepare_dataframe(table, path): [raised, err, dedup, df]; dedup is the frame
\* after the duplicates left it, df the frame returned
prepare_dataframe(t, f) == Sanitize(t, DropDuplicates(ReadCsv(f)))

(***************************************************************************)
(* The destination store: each table is the sequence of its rows, a row    *)
(* the sequence of its cells in the order of cols_order.                   *)
(***************************************************************************)
Pos(seq, x) == CHOOSE i \in 1..Len(seq) : seq[i] = x

\* the cells of a row in the columns of the ON CONFLICT target
KeyOf(t, row) ==
    [i \in 1..Len(conflict_target(t)) |-> row[Pos(cols_order(t), conflict_target(t)[i])]]

\* one execution of insert_queries[t]: INSERT ... ON CONFLICT (key) DO UPDATE SET
\* every other column; a plain INSERT for ft_posting_f
ExecInsert(t, tbl, row) ==
    IF conflict_target(t) # <<>> /\ \E i \in 1..Len(tbl) : KeyOf(t, tbl[i]) = KeyOf(t, row)
    THEN [tbl EXCEPT ![CHOOSE i \in 1..Len(tbl) : KeyOf(t, tbl[i]) = KeyOf(t, row)] = row]
    ELSE Append(tbl, row)

\* cur.executemany(insert_queries[t], rows): one execution per row, in order
RECURSIVE ExecMany(_, _, _)
ExecMany(t, tbl, rows) ==
    IF rows = <<>> THEN tbl ELSE ExecMany(t, ExecInsert(t, tbl, Head(rows)), Tail(rows))

\* a column of the frame that holds numbers only keeps a numeric dtype
IsNumericCol(df, c) == \A i \in 1..Len(df.rows) : df.rows[i].vals[c].t \in {"num", "nan"}

\* df[cols].where(pd.notnull(df), None): a null of an object column becomes None;
\* a numeric column has no place for None and keeps NaN
SelectWhere(df, cols) ==
    [i \in 1..Len(df.rows) |->
        [j \in 1..Len(cols) |->
            LET c == ColIndex(df, cols[j])
                v == df.rows[i].vals[c]
            IN IF NotNull(v) THEN v ELSE IF IsNumericCol(df, c) THEN NaN ELSE None]]

\* rows = [[pythonify(v) for v in r] for r in df.to_numpy()]
Pythonified(rs) == [i \in 1..Len(rs) |-> [j \in 1..Len(rs[i]) |-> pythonify(rs[i][j])]]

EmptyDf == [columns |-> <<>>, rows |-> <<>>]

Outcome(raised, err, dberr, ret, tables, rows, dedup, df) ==
    [raised |-> raised, err |-> err, dberr |-> dberr, ret |-> ret, tables |-> tables,
     rows |-> rows, dedup |-> dedup, df |-> df]

\* the end of import_table: TRUNCATE for ft_posting_f, then executemany;
\* reject says that the store refuses the batch (a constraint violation)
WriteRows(tables, t, p, rows, reject) ==
    IF reject
    THEN Outcome(TRUE, "IntegrityError", TRUE, 0, tables, rows, p.dedup, p.df)
    ELSE Outcome(FALSE, "", FALSE, Len(rows),
                 [tables EXCEPT ![t] = ExecMany(t, IF t = "ft_posting_f" THEN <<>> ELSE @, rows)],
                 rows, p.dedup, p.df)

\* import_table after prepare_dataframe gave p
LoadFrame(tables, t, p, reject) ==
    CASE p.raised ->
             Outcome(TRUE, p.err, FALSE, 0, tables, <<>>, p.dedup, p.df)
      [] ~p.raised /\ (p.df.rows = <<>> \/ p.df.columns = <<>>) ->
             Outcome(FALSE, "", FALSE, 0, tables, <<>>, p.dedup, p.df)
      [] ~p.raised /\ p.df.rows # <<>> /\ p.df.columns # <<>>
           /\ \E c \in Range(cols_order(t)) : c \notin Range(p.df.columns) ->
             Outcome(TRUE, "ValueError", FALSE, 0, tables, <<>>, p.dedup, p.df)
      [] OTHER ->
             WriteRows(tables, t, p, Pythonified(SelectWhere(p.df, cols_order(t))), reject)

\* import_table(conn, table, path) on the tables the connection sees.
\*   raised, err  the exception, if one leaves the call
\*   dberr        the exception came from the store: the transaction is aborted
\*   ret          the value returned
\*   tables       the tables after the call
\*   rows         the rows handed to executemany
import_table(tables, t, f, reject) ==
    IF ~f.exists
    THEN Outcome(FALSE, "", FALSE, 0, tables, <<>>, EmptyDf, EmptyDf)
    ELSE LoadFrame(tables, t, prepare_dataframe(t, f), reject)

(***************************************************************************)
(* The files of the model. A row of a file is built from a variant         *)
(* [k, d, s, o]: k the number in the key columns, d the cell of the date   *)
(* columns, s the cell of the VARCHAR-limited columns, o the cell of every *)
(* other column.                                                           *)
(***************************************************************************)
Sep(t) == IF t = "ft_posting_f" THEN "-" ELSE "."

OtherSep(t) == IF t = "ft_posting_f" THEN "." ELSE "-"

DateChoices(t) ==
    { Str(<<"0", "1", Sep(t), "0", "3", Sep(t), "2", "0", "2", "1">>),
      Str(<<"1", Sep(t), "3", Sep(t), "2", "0", "2", "1">>),
      Str(<<"3", "1", Sep(t), "0", "2", Sep(t), "2", "0", "2", "1">>),
      Str(<<"0", "1", OtherSep(t), "0", "3", OtherSep(t), "2", "0", "2", "1">>),
      Str(<<"N", "A", "N">>),
      Str(<<"n", "o", "n", "e">>),
      NaN }

StrChoices ==
    { Str(<<"R", "U", "B">>),
      Str(<<" ", "u", "s", "d", " ">>),
      Str(<<"a", "b", " ", "c", "d">>),
      Str(<<"E", "U", "R", "O">>),
      Str(<<" ", " ">>),
      NaN }

Base(t) == [k |-> "1",
            d |-> Str(<<"0", "1", Sep(t), "0", "3", Sep(t), "2", "0", "2", "1">>),
            s |-> Str(<<"R", "U", "B">>),
            o |-> Num(<<"7">>)]

RowVariants(t) ==
    {Base(t), [Base(t) EXCEPT !.k = "2"], [Base(t) EXCEPT !.o = NaN]}
    \cup (IF DateCols(t) # {} THEN {[Base(t) EXCEPT !.d = x] : x \in DateChoices(t)} ELSE {})
    \cup (IF LimitCols(t) # {} THEN {[Base(t) EXCEPT !.s = x] : x \in StrChoices} ELSE {})

CellFor(t, col, v) ==
    CASE col \in DateCols(t) -> v.d
      [] col \in LimitCols(t) -> v.s
      [] col \in Range(conflict_target(t)) -> Num(<<v.k>>)
      [] OTHER -> v.o

MkFile(t, header, variants) ==
    [exists |-> TRUE, header |-> header,
     rows |-> [i \in 1..Len(variants) |->
                 [j \in 1..Len(header) |-> CellFor(t, snake_case(header[j]), variants[i])]]]

Missing == [exists |-> FALSE, header |-> <<>>, rows |-> <<>>]

Reverse(s) == [i \in 1..Len(s) |-> s[Len(s) + 1 - i]]

DropLast(s) == SubSeq(s, 1, Len(s) - 1)

\* headers that supply every declared date column: the template's order, another
\* order (for ft_balance_f in unnormalised spellings), and one that lacks the
\* template's last column
HeaderChoices(t) ==
    {cols_order(t), DropLast(cols_order(t)),
     IF t = "ft_balance_f"
     THEN <<" Balance_Out ", " Currency-RK", " Account RK", "On_Date">>
     ELSE Reverse(cols_order(t))}

SeqsUpTo(S, n) == UNION {[1..m -> S] : m \in 0..n}

Files(t) ==
    {MkFile(t, h, vs) : h \in HeaderChoices(t), vs \in SeqsUpTo(RowVariants(t), MaxRows)}

\* a row already in the destination table, with the key of the variants k = "1"
OldRow(t) ==
    [j \in 1..Len(cols_order(t)) |->
        LET col == cols_order(t)[j]
        IN CASE col \in DateCols(t) -> Str(<<"2", "0", "2", "1", "-", "0", "3", "-", "0", "1">>)
             [] col \in LimitCols(t) -> Str(<<"O", "L", "D">>)
             [] col \in Range(conflict_target(t)) -> Num(<<"1">>)
             [] OTHER -> Num(<<"9">>)]

InitContents(t) == {<<>>, <<OldRow(t)>>}

(***************************************************************************)
(* The connection. store is what is committed, work what the connection's  *)
(* open transaction sees; closing the connection discards what was not     *)
(* committed. With autocommit every statement is committed as it runs.     *)
(***************************************************************************)
NoRow == <<>>

Connect(db, autocommit) ==
    [store |-> db, work |-> db, autocommit |-> autocommit, aborted |-> FALSE, closed |-> FALSE]

\* one statement that turns the visible database into db
Execute(c, db) ==
    IF c.autocommit THEN [c EXCEPT !.work = db, !.store = db] ELSE [c EXCEPT !.work = db]

\* conn.commit()
Commit(c) == [c EXCEPT !.store = c.work]

\* conn.rollback()
Rollback(c) == [c EXCEPT !.work = c.store, !.aborted = FALSE]

\* conn.close()
Close(c) == [c EXCEPT !.work = c.store, !.aborted = FALSE, !.closed = TRUE]

\* a finished run of an earlier invocation
PriorRun(i) ==
    [run_id |-> i, dag_id |-> "csv_loader", task_id |-> "bulk_load_csv", status |-> "success",
     finished |-> TRUE, rows_loaded |-> <<0>>, note |-> NoRow]

PriorRuns(n) == [i \in 1..n |-> PriorRun(i)]

\* INSERT INTO logs.etl_runs (dag_id, task_id, status) VALUES (..., 'running') RETURNING run_id
InsertRun(db, dag, task, status, note) ==
    [db EXCEPT !.runs = Append(@,
        [run_id |-> Len(db.runs) + 1, dag_id |-> dag, task_id |-> task, status |-> status,
         finished |-> FALSE, rows_loaded |-> NoRow, note |-> note])]

\* main.log_start(conn): the INSERT and conn.commit()
log_start(c) == Commit(Execute(c, InsertRun(c.work, "csv_loader", "bulk_load_csv", "running", NoRow)))

\* UPDATE logs.etl_runs SET finished_at = now(), status, rows_loaded, note WHERE run_id
UpdateRun(db, rid, status, rows, note) ==
    [db EXCEPT !.runs = [i \in 1..Len(db.runs) |->
        IF db.runs[i].run_id = rid
        THEN [db.runs[i] EXCEPT !.status = status, !.finished = TRUE,
                                !.rows_loaded = <<rows>>, !.note = note]
        ELSE db.runs[i]]]

\* main.log_finish(conn, run_id, status, rows, note): the UPDATE and conn.commit()
log_finish(c, rid, status, rows, note) ==
    Commit(Execute(c, UpdateRun(c.work, rid, status, rows, note)))

\* (the except branch reporting no rows)
OnLoadError_zeroRows(c, rid, tot, err) ==
    log_finish(Rollback(c), rid, "failed", 0, <<err>>)

\* the except branch of the loop: conn.rollback(), then log_finish(..., "failed", total, str(e))

OnLoadError(c, rid, tot, err) == log_finish(Rollback(c), rid, "failed", tot, <<err>>)

\* the statement after the loop: log_finish(conn, run_id, "success", total)
OnAllLoaded(c, rid, tot) == log_finish(c, rid, "success", tot, NoRow)

(***************************************************************************)
(* The files a run of the loader finds, per table.                         *)
(***************************************************************************)
DropFirst(s) == SubSeq(s, 2, Len(s))

RunFiles(t) ==
    <<Missing,
      MkFile(t, cols_order(t), <<Base(t), [Base(t) EXCEPT !.k = "2", !.o = NaN]>>),
      MkFile(t, DropLast(cols_order(t)), <<Base(t)>>)>>
    \o (IF DateCols(t) # {} THEN <<MkFile(t, DropFirst(cols_order(t)), <<Base(t)>>)>> ELSE <<>>)
    \o (IF t = "ft_posting_f" THEN <<MkFile(t, cols_order(t), <<Base(t), Base(t)>>)>> ELSE <<>>)

InitTables == [t \in TableNames |-> IF t = "ft_posting_f" THEN <<OldRow(t)>> ELSE <<>>]

NoOutcome == Outcome(FALSE, "", FALSE, 0, InitTables, <<>>, EmptyDf, EmptyDf)

(***************************************************************************)
(* The run of the loader (the __main__ block of main.py).                  *)
(***************************************************************************)
Init ==
    /\ pc = "start"
    /\ \E n \in 0..MaxPriorRuns :
           conn = Connect([tables |-> InitTables, runs |-> PriorRuns(n)], FALSE)
    /\ \E choice \in [TableNames -> 1..5] :
           /\ \A t \in TableNames : choice[t] <= Len(RunFiles(t))
           /\ files = [t \in TableNames |-> RunFiles(t)[choice[t]]]
    /\ idx = 1
    /\ total = 0
    /\ run_id = 0
    /\ attempted = <<>>
    /\ exc = ""
    /\ finishCalls = 0
    /\ res = NoOutcome
    /\ res1 = NoOutcome
    /\ table = ""
    /\ file = Missing
    /\ cmd = ""
    /\ body = ""

\* run_id = log_start(conn)
MainLogStart ==
    /\ pc = "start"
    /\ conn' = log_start(conn)
    /\ run_id' = Len(conn.work.runs) + 1
    /\ pc' = "loop"
    /\ UNCHANGED <<files, idx, total, attempted, exc, finishCalls, res, res1, table, file, cmd, body>>

\* the body of the try: total += import_table(conn, tbl, path), r its outcome
Returned(r) ==
    /\ ~r.raised
    /\ res' = r
    /\ conn' = Execute(conn, [conn.work EXCEPT !.tables = r.tables])
    /\ total' = total + r.ret

\* the except branch, r the outcome of import_table
Raised(r) ==
    /\ r.raised
    /\ res' = r
    /\ conn' = OnLoadError([conn EXCEPT !.aborted = r.dberr], run_id, total, r.err)
    /\ exc' = r.err

\* one iteration of the loop whose import_table returns
MainLoadTable ==
    /\ pc = "loop"
    /\ idx <= Len(csv_files)
    /\ \E reject \in BOOLEAN :
           Returned(import_table(conn.work.tables, csv_files[idx], files[csv_files[idx]], reject))
    /\ attempted' = Append(attempted, csv_files[idx])
    /\ idx' = idx + 1
    /\ UNCHANGED <<pc, files, run_id, exc, finishCalls, res1, table, file, cmd, body>>

\* (the except branch without its raise: the loop goes on to the next table)
MainLoadTableRaises_swallowed ==
    /\ pc = "loop"
    /\ idx <= Len(csv_files)
    /\ \E reject \in BOOLEAN :
           Raised(import_table(conn.work.tables, csv_files[idx], files[csv_files[idx]], reject))
    /\ finishCalls' = finishCalls + 1
    /\ attempted' = Append(attempted, csv_files[idx])
    /\ idx' = idx + 1
    /\ UNCHANGED <<pc, files, total, run_id, res1, table, file, cmd, body>>

\* one iteration of the loop whose import_table raises: the except branch runs and
\* the exception leaves the loop
MainLoadTableRaises ==
    /\ pc = "loop"
    /\ idx <= Len(csv_files)
    /\ \E reject \in BOOLEAN :
           Raised(import_table(conn.work.tables, csv_files[idx], files[csv_files[idx]], reject))
    /\ finishCalls' = finishCalls + 1
    /\ attempted' = Append(attempted, csv_files[idx])
    /\ pc' = "finally"
    /\ UNCHANGED <<files, idx, total, run_id, res1, table, file, cmd, body>>

\* the loop is over: log_finish(conn, run_id, "success", total)
MainLogFinish ==
    /\ pc = "loop"
    /\ idx > Len(csv_files)
    /\ conn' = OnAllLoaded(conn, run_id, total)
    /\ finishCalls' = finishCalls + 1
    /\ pc' = "finally"
    /\ UNCHANGED <<files, idx, total, run_id, attempted, exc, res, res1, table, file, cmd, body>>

\* finally: conn.close()
MainClose ==
    /\ pc = "finally"
    /\ conn' = Close(conn)
    /\ pc' = "done"
    /\ UNCHANGED <<files, idx, total, run_id, attempted, exc, finishCalls, res, res1, table, file, cmd, body>>

Next == MainLogStart \/ MainLoadTable \/ MainLoadTableRaises \/ MainLogFinish \/ MainClose

Spec == Init /\ [][Next]_vars

(***************************************************************************)
(* Properties of the run of the loader.                                    *)
(***************************************************************************)
\* what import_table returns for the k-th configured table when the store accepts
RetOf(k) == import_table(InitTables, csv_files[k], files[csv_files[k]], FALSE).ret

RECURSIVE SumRet(_)
SumRet(k) == IF k = 0 THEN 0 ELSE SumRet(k - 1) + RetOf(k)

\* the tables once the first k configured tables are loaded, each load kept
RECURSIVE TablesAfter(_)
TablesAfter(k) ==
    IF k = 0 THEN InitTables
    ELSE import_table(TablesAfter(k - 1), csv_files[k], files[csv_files[k]], FALSE).tables

\* the committed records of this run
RunRecords == SelectSeq(conn.store.runs, LAMBDA r : r.run_id = run_id)

Ended == pc \in {"finally", "done"}

\* C1: when the load of table k raises, no later table is attempted, the run's
\* record is committed as 'failed' with rows_loaded the sum of what the tables
\* before k returned and with the error's message as note, and the error
\* propagates to the caller.
C1_FailedRun ==
    (Ended /\ (exc # "" \/ res.raised)) =>
        /\ attempted = SubSeq(csv_files, 1, Len(attempted))
        /\ idx = Len(attempted)
        /\ res.raised
        /\ exc = res.err
        /\ Len(RunRecords) = 1
        /\ RunRecords[1].status = "failed"
        /\ RunRecords[1].finished
        /\ RunRecords[1].rows_loaded = <<SumRet(Len(attempted) - 1)>>
        /\ RunRecords[1].note = <<exc>>

C1_Witness ==
    /\ pc = "done"
    /\ exc = "IntegrityError"
    /\ Len(attempted) = 3
    /\ RunRecords[1].status = "failed"
    /\ RunRecords[1].rows_loaded = <<4>>

\* C2: the run's record is created once as 'running' and updated once, to
\* 'success' or 'failed'; log_finish is never called twice; a record that is
\* 'success' or 'failed' is never updated again; and when every configured table
\* completes the record is 'success' with the sum of all tables' row counts.
C2_RecordStates ==
    /\ finishCalls <= 1
    /\ (pc = "start") => (Len(RunRecords) = 0 /\ finishCalls = 0)
    /\ (pc # "start") => Len(RunRecords) = 1
    /\ (pc = "loop") =>
           /\ RunRecords[1].status = "running"
           /\ ~RunRecords[1].finished
           /\ finishCalls = 0
    /\ Ended =>
           /\ finishCalls = 1
           /\ RunRecords[1].status \in {"success", "failed"}
           /\ RunRecords[1].finished
    /\ (Ended /\ exc = "") =>
           /\ attempted = csv_files
           /\ RunRecords[1].status = "success"
           /\ RunRecords[1].rows_loaded = <<SumRet(Len(csv_files))>>

C2_TerminalKept ==
    \A i \in 1..Len(conn.store.runs) :
        conn.store.runs[i].status \in {"success", "failed"} =>
            /\ i <= Len(conn'.store.runs)
            /\ conn'.store.runs[i] = conn.store.runs[i]

\* C2: in every state the record of the run is as C2_RecordStates says, and no step
\* changes a committed record that is 'success' or 'failed'.
C2_RunLifecycle == [](C2_RecordStates) /\ [][C2_TerminalKept]_vars

C2_Witness ==
    /\ pc = "done"
    /\ exc = ""
    /\ ~files["md_account_d"].exists
    /\ RunRecords[1].status = "success"
    /\ RunRecords[1].rows_loaded = <<6>>
    /\ Len(conn.store.runs) > 1

\* C5: when table k raises after earlier tables returned, what the earlier tables
\* wrote (and truncated) is in the store after the run, and the rows_loaded of
\* the 'failed' record is the number of rows this run left in the store.
RowsLeftByRun ==
    LET new(t) == {i \in 1..Len(conn.store.tables[t]) :
                      conn.store.tables[t][i] \notin Range(InitTables[t])}
        RECURSIVE count(_)
        count(k) == IF k = 0 THEN 0 ELSE count(k - 1) + Cardinality(new(csv_files[k]))
    IN count(Len(csv_files))

C5_EarlierLoadsPersist ==
    (pc = "done" /\ exc # "") =>
        /\ conn.store.tables = TablesAfter(Len(attempted) - 1)
        /\ RunRecords[1].rows_loaded = <<RowsLeftByRun>>

(***************************************************************************)
(* import_table on its own: one table, one file, any content already in    *)
(* the table, and the same file loaded twice in succession.                *)
(***************************************************************************)
InitImport ==
    /\ pc = "call1"
    /\ table \in TableNames
    /\ file \in Files(table)
    /\ \E c \in InitContents(table) :
           conn = Connect([tables |-> [t \in TableNames |-> IF t = table THEN c ELSE <<>>],
                           runs |-> <<>>], FALSE)
    /\ files = [t \in TableNames |-> Missing]
    /\ idx = 1
    /\ total = 0
    /\ run_id = 0
    /\ attempted = <<>>
    /\ exc = ""
    /\ finishCalls = 0
    /\ res = NoOutcome
    /\ res1 = NoOutcome
    /\ cmd = ""
    /\ body = ""

\* the call has the outcome r
Called(r) ==
    /\ res' = r
    /\ conn' = Execute(conn, [conn.work EXCEPT !.tables = r.tables])

\* import_table(conn, table, path), the first time
ImportFirst ==
    /\ pc = "call1"
    /\ Called(import_table(conn.work.tables, table, file, FALSE))
    /\ res1' = res'
    /\ pc' = "call2"
    /\ UNCHANGED <<files, idx, total, run_id, attempted, exc, finishCalls, table, file, cmd, body>>

\* import_table(conn, table, path), again
ImportSecond ==
    /\ pc = "call2"
    /\ Called(import_table(conn.work.tables, table, file, FALSE))
    /\ pc' = "called"
    /\ UNCHANGED <<files, idx, total, run_id, attempted, exc, finishCalls, res1, table, file, cmd, body>>

NextImport == ImportFirst \/ ImportSecond

SpecImport == InitImport /\ [][NextImport]_vars

(***************************************************************************)
(* Properties of import_table and prepare_dataframe.                       *)
(***************************************************************************)
HasIdx(df, i) == \E n \in 1..Len(df.rows) : df.rows[n].idx = i

RowAt(df, i) == df.rows[CHOOSE n \in 1..Len(df.rows) : df.rows[n].idx = i]

\* the cell of the file's i-th data row under the header that normalises to col
FileCell(i, col) ==
    file.rows[i][CHOOSE j \in 1..Len(file.header) : snake_case(file.header[j]) = col]

\* the i-th data row of the file has an exact copy in the file
Twin(i) == \E j \in 1..Len(file.rows) : j # i /\ file.rows[j] = file.rows[i]

\* the cell of column col in the row of the returned frame that came from row i
OutCell(i, col) == RowAt(res1.df, i - 1).vals[ColIndex(res1.df, col)]

Loaded == pc \in {"call2", "called"}

\* C3 (as claimed): loading the same file twice leaves the table as loading it
\* once does; an upsert table holds each key once, with the file's values; the
\* truncate-and-reload table holds exactly one copy of the file's cleaned rows.
C3_TwiceAsOnce ==
    (pc = "called" /\ ~res1.raised /\ ~res.raised) =>
        LET tbl == res.tables[table]
        IN /\ tbl = res1.tables[table]
           /\ conflict_target(table) # <<>> =>
                  /\ \A i, j \in 1..Len(tbl) :
                         KeyOf(table, tbl[i]) = KeyOf(table, tbl[j]) => i = j
                  /\ \A n \in 1..Len(res.rows) :
                         (\A m \in (n + 1)..Len(res.rows) :
                              KeyOf(table, res.rows[m]) # KeyOf(table, res.rows[n]))
                         => \E i \in 1..Len(tbl) : tbl[i] = res.rows[n]
           /\ conflict_target(table) = <<>> => tbl = res.rows

\* C4 (as claimed): whenever import_table runs for ft_posting_f with an existing
\* file and returns, the rows the table held before are gone and the table holds
\* exactly the cleaned batch of the file, also when that batch is empty.
C4_TruncateUnconditional ==
    (pc = "call2" /\ table = "ft_posting_f" /\ file.exists /\ ~res1.raised) =>
        /\ conn.work.tables[table] = res1.rows
        /\ OldRow(table) \notin Range(conn.work.tables[table])

Years == 2020..2021

Unpadded(n) == IF n < 10 THEN <<DigitChar(n)>> ELSE Pad2(n)

Spellings(sep) ==
    {<<(IF x.pd THEN Pad2(x.d) ELSE Unpadded(x.d)) \o <<sep>>
         \o (IF x.pm THEN Pad2(x.m) ELSE Unpadded(x.m)) \o <<sep>> \o Pad4(x.y),
       Pad4(x.y) \o <<"-">> \o Pad2(x.m) \o <<"-">> \o Pad2(x.d)>> :
       x \in {z \in [d : 1..31, m : 1..12, y : Years, pd : BOOLEAN, pm : BOOLEAN] :
                 z.d <= DaysInMonth(z.m, z.y)}}

DotSpellings == Spellings(".")

DashSpellings == Spellings("-")

DotTexts == {p[1] : p \in DotSpellings}

DashTexts == {p[1] : p \in DashSpellings}

\* C7: in every declared date column a value that parses under the declared
\* format is rewritten to year-month-day form and its row is kept; an empty value,
\* a textual nan/none and a value that does not parse become null and the row is
\* absent from the cleaned output (every declared date column is required).
C7_DateCoercion ==
    Loaded =>
        \A k \in 1..Len(date_columns(table)) : \A i \in 1..Len(file.rows) :
            LET dc == date_columns(table)[k]
                text == PyStr(FileCell(i, dc.col))
                texts == IF dc.fmt = "DD.MM.YYYY" THEN DotTexts ELSE DashTexts
                pairs == IF dc.fmt = "DD.MM.YYYY" THEN DotSpellings ELSE DashSpellings
            IN ~Twin(i) =>
                   IF text \in texts
                   THEN /\ HasIdx(res1.df, i - 1)
                        /\ OutCell(i, dc.col).t = "str"
                        /\ <<text, OutCell(i, dc.col).s>> \in pairs
                   ELSE ~HasIdx(res1.df, i - 1)

C7_Witness ==
    /\ pc = "call2"
    /\ table = "ft_balance_f"
    /\ Len(file.rows) = 3
    /\ FileCell(1, "on_date") = Str(<<"1", ".", "3", ".", "2", "0", "2", "1">>)
    /\ FileCell(2, "on_date") = Str(<<"3", "1", ".", "0", "2", ".", "2", "0", "2", "1">>)
    /\ FileCell(3, "on_date") = NaN
    /\ Len(res1.df.rows) = 1
    /\ OutCell(1, "on_date") = Str(<<"2", "0", "2", "1", "-", "0", "3", "-", "0", "1">>)

\* the text of a cell of the file: nothing for a missing value
FieldText(v) == IF v.t = "nan" THEN <<>> ELSE v.s

C9_UniformNulls ==
    (Loaded /\ ~res1.raised) =>
        \A n \in 1..Len(res1.rows) : \A j \in 1..Len(cols_order(table)) :
            LET i == res1.df.rows[n].idx + 1
            IN /\ FileCell(i, cols_order(table)[j]) = NaN => res1.rows[n][j] = None
               /\ res1.rows[n][j].t # "nan"
               /\ ~(res1.rows[n][j].t = "str" /\ Lower(res1.rows[n][j].s) = <<"n", "a", "n">>)

(***************************************************************************)
(* The export / import companion (load_download.py). Its tables are the    *)
(* mart dm.dm_f101_round_f and the copy dm.dm_f101_round_f_v2, each held   *)
(* as its number of rows. total is the number of rows of the mart for the  *)
(* exported date, or of the CSV file imported.                             *)
(***************************************************************************)
\* log_start(cur, task_id, note): INSERT ... 'STARTED' ... RETURNING run_id, no commit
f101_log_start(c, task, note) ==
    Execute(c, InsertRun(c.work, "csv_exchange", task, "STARTED", <<note>>))

\* UPDATE logs.etl_runs SET finished_at, status, rows_loaded = COALESCE(rows, rows_loaded),
\* note = COALESCE(note, note) WHERE run_id; rows and note are <<>> for None
UpdateRunF101(db, rid, status, rows, note) ==
    [db EXCEPT !.runs = [i \in 1..Len(db.runs) |->
        IF db.runs[i].run_id = rid
        THEN [db.runs[i] EXCEPT !.status = status, !.finished = TRUE,
                                !.rows_loaded = IF rows = <<>> THEN @ ELSE rows,
                                !.note = IF note = <<>> THEN @ ELSE note]
        ELSE db.runs[i]]]

\* log_finish(cur, run_id, status, rows, note): the UPDATE, no commit; in an aborted
\* transaction the statement raises and changes nothing
f101_log_finish(c, rid, status, rows, note) ==
    IF c.aborted THEN c ELSE Execute(c, UpdateRunF101(c.work, rid, status, rows, note))

InitF101 ==
    /\ pc = "start"
    /\ cmd \in {"export", "import"}
    /\ body \in {"ok", "db_error", "io_error"}
    /\ total \in 0..MaxF101Rows
    /\ \E n \in 0..MaxPriorRuns, m \in 0..MaxF101Rows :
           conn = Connect([tables |-> [mart |-> total, copy |-> m], runs |-> PriorRuns(n)], FALSE)
    /\ files = [t \in TableNames |-> Missing]
    /\ idx = 1
    /\ run_id = 0
    /\ attempted = <<>>
    /\ exc = ""
    /\ finishCalls = 0
    /\ res = NoOutcome
    /\ res1 = NoOutcome
    /\ table = ""
    /\ file = Missing

\* psycopg2.connect (import_f101 sets autocommit), the cursor, and log_start
F101Start ==
    /\ pc = "start"
    /\ conn' = f101_log_start([conn EXCEPT !.autocommit = (cmd = "import")],
                              IF cmd = "export" THEN "export_f101" ELSE "import_f101", "file_path")
    /\ run_id' = Len(conn.work.runs) + 1
    /\ pc' = "body"
    /\ UNCHANGED <<files, idx, total, attempted, exc, finishCalls, res, res1, table, file, cmd, body>>

\* the body of the try completes: export_f101 reads the mart and writes the CSV;
\* import_f101 creates the copy, truncates it and copies the file into it; then
\* log_finish(cur, run_id, status="SUCCESS", rows=...)
F101Body ==
    /\ pc = "body"
    /\ body = "ok"
    /\ conn' = f101_log_finish(
                   IF cmd = "import"
                   THEN Execute(conn, [conn.work EXCEPT !.tables.copy = total])
                   ELSE conn,
                   run_id, "SUCCESS", <<total>>, <<>>)
    /\ finishCalls' = finishCalls + 1
    /\ pc' = "exit"
    /\ UNCHANGED <<files, idx, total, run_id, attempted, exc, res, res1, table, file, cmd, body>>

\* the body of the try raises: log_finish(cur, run_id, status="FAILED", note=str(exc))
\* and raise. A statement that fails aborts the transaction of export_f101 (or the
\* caller that ran it rolls the transaction back); import_f101 has truncated the
\* copy by then.
F101BodyRaises ==
    /\ pc = "body"
    /\ body # "ok"
    /\ \E rolledBack \in BOOLEAN :
           LET failed ==
                   CASE cmd = "import" -> Execute(conn, [conn.work EXCEPT !.tables.copy = 0])
                     [] cmd = "export" /\ body = "db_error" /\ rolledBack -> Rollback(conn)
                     [] cmd = "export" /\ body = "db_error" /\ ~rolledBack ->
                            [conn EXCEPT !.aborted = TRUE]
                     [] OTHER -> conn
           IN /\ conn' = f101_log_finish(failed, run_id, "FAILED", <<>>, <<body>>)
              /\ exc' = IF failed.aborted THEN "InFailedSqlTransaction" ELSE body
    /\ finishCalls' = finishCalls + 1
    /\ pc' = "exit"
    /\ UNCHANGED <<files, idx, total, run_id, attempted, res, res1, table, file, cmd, body>>

\* leaving the with block: closing(conn) closes the connection
F101Exit ==
    /\ pc = "exit"
    /\ conn' = Close(conn)
    /\ pc' = "closed"
    /\ UNCHANGED <<files, idx, total, run_id, attempted, exc, finishCalls, res, res1, table, file, cmd, body>>

NextF101 == F101Start \/ F101Body \/ F101BodyRaises \/ F101Exit

SpecF101 == InitF101 /\ [][NextF101]_vars

\* C10 (as claimed): every invocation of export_f101 and of import_f101 leaves one
\* record of the run in logs.etl_runs after the connection is closed: 'SUCCESS'
\* with the row count when the body completed, 'FAILED' with the error message as
\* note when it raised, and the error propagates.
C10_RunLogged ==
    (pc = "closed") =>
        /\ Len(RunRecords) = 1
        /\ finishCalls = 1
        /\ body = "ok" => /\ RunRecords[1].status = "SUCCESS"
                          /\ RunRecords[1].rows_loaded = <<total>>
                          /\ exc = ""
        /\ body # "ok" => /\ RunRecords[1].status = "FAILED"
                          /\ RunRecords[1].note = <<body>>
                          /\ exc = body

====
